---- MODULE Spec2Model ----
(***************************************************************************)
(* A model of timealloc's CalendarSolver (src/timealloc/calendar_solver.py) *)
(* and of the parameters scripts/calendar_md.py hands to it.               *)
(*                                                                         *)
(* The solver object compiles a parameter bundle into an integer program.  *)
(* The program is modelled by its rules: every Constraint(rule=...) of the *)
(* source is an operator here, named after the pyomo component it is       *)
(* attached to, over the same index sets.  optimize() hands the program to *)
(* an external MILP solver, which is modelled by its contract: it returns  *)
(* a point satisfying every rule (an optimal one when it reports that      *)
(* status), or no point at all.                                            *)
(*                                                                         *)
(* Real-valued quantities are kept exact: EPS = 1e-2 is the rational       *)
(* 1/EPS_INV and every band  lo <= x - num/den <= hi  of the source is     *)
(* compared after multiplying through by EPS_INV * den.  Utilities are     *)
(* integers in units of 1/1000 (0.5 is 500, 0.333 is 333).                 *)
(***************************************************************************)
EXTENDS Integers, Sequences, FiniteSets, TLC

VARIABLES
    params,       \* the parameter bundle given to CalendarSolver(utilities, params)
    utilities,    \* self.utilities: [timeslot, task] -> reward
    _optimized,   \* self._optimized
    _results,     \* self._results (the solver's report), NoResults before a solve
    instance,     \* self.instance: the values of the model's variables
    array,        \* self.array: the flattened calendar computed by visualize()
    err,          \* the exception the last call raised, "none" when it returned
    solves,       \* number of optimize() calls made so far
    planned,      \* number of optimize() calls the caller makes
    pc,           \* where the caller is: "assert", "construct", "ready", "stopped"
    built,        \* the steps of _construct_ip performed so far
    solver_log,   \* the invocations the external solver has received
    chunking,     \* a chunking family with the values its rules are evaluated on
    parsed        \* tasks: the task description the script parsed, NoParse otherwise

vars == <<params, utilities, _optimized, _results, instance, array, err, solves,
          planned, pc, built, solver_log, chunking, parsed>>

----------------------------------------------------------------------------
(* Bounds of the model *)

\* timeslots per day (24 * SLOTS_PER_HOUR in the source)
SlotsPerDay == 3
\* number of tasks of the parameter bundles explored
MaxTasks == 2
\* number of categories of the parameter bundles explored
MaxCategories == 2
\* largest task_duration explored
MaxDuration == 3
\* width of the valid-mask windows explored
MaxWindow == 4
\* most optimize() calls a caller makes on one solver object
MaxSolves == 2

(* Program constants *)

\* dayslots = RangeSet(0, 6)
NumDays == 7
\* EPS = 1e-2, kept as its inverse
EPS_INV == 100
\* TIMELIMIT = 3e2
TIMELIMIT == 300
\* CONT_STRIDE = 12 (hours)
CONT_STRIDE == 12
\* SLACK = 5
SLACK == 5

\* util_time.NUMSLOTS: a week of timeslots
NUMSLOTS == NumDays * SlotsPerDay

None == "None"

----------------------------------------------------------------------------
(* Index sets, as declared in __init__ and _variables *)

tasks(p) == 0 .. (p.num_tasks - 1)
categories(p) == 0 .. (p.num_categories - 1)
timeslots(p) == 0 .. (p.num_timeslots - 1)
timeslots2(p) == 0 .. (p.num_timeslots - 2)
timeslots3(p) == 0 .. (p.num_timeslots - 3)
dayslots == 0 .. (NumDays - 1)

\* sum of f over the finite set S of its domain: each value f takes on S,
\* times the number of elements of S where f takes it
RECURSIVE SumValues(_, _, _)
SumValues(vals, f, S) ==
    IF vals = {} THEN 0
    ELSE LET v == CHOOSE w \in vals : TRUE
         IN v * Cardinality({ x \in S : f[x] = v }) + SumValues(vals \ {v}, f, S)

SumOver(f, S) == SumValues({ f[x] : x \in S }, f, S)

\* util.blockdiag(n, incr): the columns where row r is 1, its r-th block of
\* incr columns
blockdiag(r, incr) == (r * incr) .. ((r + 1) * incr - 1)

----------------------------------------------------------------------------
(* The rules of the integer program.  al is an allocation: a record with   *)
(* the fields A, A2, A3.  Each is a Boolean matrix over [timeslot, task],  *)
(* kept as the set of the index pairs whose variable is 1; V reads an      *)
(* entry.  sol is an allocation with the values of the other variables.    *)

\* the value of the Boolean variable M[i, j]
V(M, i, j) == IF <<i, j>> \in M THEN 1 ELSE 0

\* sum(M[i, j] for i in I): the number of i in I whose variable M[i, j] is 1
SumI(M, I, j) == Cardinality({ x \in M : x[2] = j /\ x[1] \in I })

\* sum(M[i, j] for j in J)
SumJ(M, i, J) == Cardinality({ x \in M : x[1] = i /\ x[2] \in J })

\* sum(M[i, j] * w[j] for i in I for j in J), the weights w being integers
SumIJ(M, I, J, w) ==
    LET ones == { x \in M : x[1] \in I /\ x[2] \in J }
    IN SumOver([x \in ones |-> w[x[2]]], ones)

\* _constraints_task_valid: constrain_valid
constrain_valid(p, al, i, j) == V(al.A, i, j) * (1 - p.task_valid[i, j]) = 0

\* constrain_valid20
constrain_valid20(p, al, i, j) == V(al.A2, i, j) * (1 - p.task_valid[i, j]) = 0

\* the rule without the case of the last timeslot of the week
constrain_valid21_open(p, al, i, j) ==
    IF i = p.num_timeslots - 1
    THEN TRUE
    ELSE V(al.A2, i, j) * (1 - p.task_valid[i + 1, j]) = 0

\* constrain_valid21
constrain_valid21(p, al, i, j) ==
    IF i = p.num_timeslots - 1
    THEN V(al.A2, i, j) = 0
    ELSE V(al.A2, i, j) * (1 - p.task_valid[i + 1, j]) = 0

\* constrain_valid30
constrain_valid30(p, al, i, j) == V(al.A3, i, j) * (1 - p.task_valid[i, j]) = 0

\* the rule that looks at slot i where constrain_valid31 looks at slot i+1
constrain_valid31_same_slot(p, al, i, j) ==
    IF i >= p.num_timeslots - 2
    THEN V(al.A3, i, j) = 0
    ELSE V(al.A3, i, j) * (1 - p.task_valid[i, j]) = 0

\* constrain_valid31
constrain_valid31(p, al, i, j) ==
    IF i >= p.num_timeslots - 2
    THEN V(al.A3, i, j) = 0
    ELSE V(al.A3, i, j) * (1 - p.task_valid[i + 1, j]) = 0

\* constrain_valid32
constrain_valid32(p, al, i, j) ==
    IF i >= p.num_timeslots - 2
    THEN V(al.A3, i, j) = 0
    ELSE V(al.A3, i, j) * (1 - p.task_valid[i + 2, j]) = 0

\* the six validity rules of one index pair
constraints_task_valid(p, al, i, j) ==
    /\ constrain_valid(p, al, i, j)
    /\ constrain_valid20(p, al, i, j)
    /\ constrain_valid21(p, al, i, j)
    /\ constrain_valid30(p, al, i, j)
    /\ constrain_valid31(p, al, i, j)
    /\ constrain_valid32(p, al, i, j)

\* the total without the look-back to a 3-slot block begun two slots earlier
nonoverlapping_total_short(p, al, i) ==
    SumJ(al.A, i, tasks(p))
    + SumJ(al.A2, i, tasks(p))
    + SumJ(al.A3, i, tasks(p))
    + (IF i > 0
       THEN SumJ(al.A2, i - 1, tasks(p)) + SumJ(al.A3, i - 1, tasks(p))
       ELSE 0)

\* _constraints_nonoverlapping_tasks: the total bounded by the rule at slot i
nonoverlapping_total(p, al, i) ==
    SumJ(al.A, i, tasks(p))
    + SumJ(al.A2, i, tasks(p))
    + SumJ(al.A3, i, tasks(p))
    + (IF i > 0
       THEN SumJ(al.A2, i - 1, tasks(p)) + SumJ(al.A3, i - 1, tasks(p))
       ELSE 0)
    + (IF i > 1 THEN SumJ(al.A3, i - 2, tasks(p)) ELSE 0)

\* constrain_nonoverlapping
constrain_nonoverlapping(p, al, i) ==
    LET total == nonoverlapping_total(p, al, i) IN 0 <= total /\ total <= 1

\* the total that counts every block as one slot
task_j_total_unweighted(p, al, j) ==
    SumI(al.A, timeslots(p), j)
    + SumI(al.A2, timeslots2(p), j)
    + SumI(al.A3, timeslots3(p), j)

\* _constraints_task_duration: the weighted total of task j
task_j_total(p, al, j) ==
    SumI(al.A, timeslots(p), j)
    + 2 * SumI(al.A2, timeslots2(p), j)
    + 3 * SumI(al.A3, timeslots3(p), j)

\* constrain_task_duration
constrain_task_duration(p, al, j) ==
    LET total == task_j_total(p, al, j) IN 0 <= total /\ total <= p.task_duration[j]

\* the total that counts every block as one slot
cat_k_total_unweighted(p, al, k) ==
    LET w == [j \in tasks(p) |-> p.task_category[j, k]]
    IN SumIJ(al.A, timeslots(p), tasks(p), w)
       + SumIJ(al.A2, timeslots2(p), tasks(p), w)
       + SumIJ(al.A3, timeslots3(p), tasks(p), w)

\* _constraints_variables, first rule: total slots allocated to category k
cat_k_total(p, al, k) ==
    LET w == [j \in tasks(p) |-> p.task_category[j, k]]
    IN SumIJ(al.A, timeslots(p), tasks(p), w)
       + 2 * SumIJ(al.A2, timeslots2(p), tasks(p), w)
       + 3 * SumIJ(al.A3, timeslots3(p), tasks(p), w)

\* constrain_cat_duration0
constrain_cat_duration0(p, sol, k) == sol.C_total[k] = cat_k_total(p, sol, k)

\* _constraints_category_duration: constrain_cat_duration1
constrain_cat_duration1(p, sol, k) ==
    p.category_min[k] <= sol.C_total[k] /\ sol.C_total[k] <= p.category_max[k]

\* -EPS <= x - num / den <= 1 - EPS, the band that makes x the indicator of
\* num > 0, multiplied through by EPS_INV * den (den > 0)
indicator_band(x, num, den) ==
    LET diff == EPS_INV * den * x - EPS_INV * num
    IN -den <= diff /\ diff <= (EPS_INV - 1) * den

\* den of constrain_cat_days0: the number of member tasks of category k
cat_den(p, k) == SumOver([j \in tasks(p) |-> p.task_category[j, k]], tasks(p))

\* numerator of the total of constrain_cat_days0
cat_days_num(p, S, s, k) ==
    SumOver([j \in tasks(p) |-> p.task_category[j, k] * S[s, j]], tasks(p))

\* constrain_cat_days0: -EPS <= S_cat[s,k] - total <= 1 - EPS, with
\* total = sum_j task_category[j,k] * S[s,j] / den
constrain_cat_days0(p, sol, s, k) ==
    indicator_band(sol.S_cat[s, k], cat_days_num(p, sol.S, s, k), cat_den(p, k))

\* constrain_cat_days1
constrain_cat_days1(p, sol, k) ==
    sol.S_cat_total[k] = SumOver([s \in dayslots |-> sol.S_cat[s, k]], dayslots)

\* _constraints_category_days: constrain_cat_days2
constrain_cat_days2(p, sol, s, k) == p.category_days[s, k] <= sol.S_cat[s, k]

\* the rule with its inequality turned around
constrain_cat_days3_at_most(p, sol, k) == sol.S_cat_total[k] <= p.category_total[k]

\* constrain_cat_days3
constrain_cat_days3(p, sol, k) == p.category_total[k] <= sol.S_cat_total[k]

\* summation(self.utilities, M): sum of utilities[index] * M[index] over the
\* index set of the variable M, timeslots * tasks
summation(p, u, M) ==
    LET ones == { x \in M : x[1] \in timeslots(p) /\ x[2] \in tasks(p) }
    IN SumOver([x \in ones |-> u[x]], ones)

\* _constraints_utility: constrain_A_total
constrain_A_total(p, u, sol) == sol.A_total = summation(p, u, sol.A)

\* constrain_A2_total
constrain_A2_total(p, u, sol) == sol.A2_total = 2 * summation(p, u, sol.A2)

\* constrain_A3_total
constrain_A3_total(p, u, sol) == sol.A3_total = 3 * summation(p, u, sol.A3)

\* the expression without the reward of the 2-slot blocks
obj_cost_without_A2(sol) == -(sol.A_total + sol.A3_total)

\* the expression without the negation: the total utility would be minimised
obj_cost_unnegated(sol) == sol.A_total + sol.A2_total + sol.A3_total

\* _objective_cost: the expression that is minimised
obj_cost(sol) == -(sol.A_total + sol.A2_total + sol.A3_total)

\* _constraints_task_spread: total of constrain_spread0 before the division
\* by den, the weighted starts of task j in the timeslots of day d
spread_total(p, al, d, j) ==
    LET day == blockdiag(d, SlotsPerDay) \cap timeslots(p)
    IN SumI(al.A, day, j) + 2 * SumI(al.A2, day, j) + 3 * SumI(al.A3, day, j)

\* den of constrain_spread0: sum(diag[d, :])
spread_den(p, d) == Cardinality(blockdiag(d, SlotsPerDay) \cap timeslots(p))

\* constrain_spread0: -EPS <= S[d,j] - total / den <= 1 - EPS
constrain_spread0(p, sol, d, j) ==
    indicator_band(sol.S[d, j], spread_total(p, sol, d, j), spread_den(p, d))

\* _constraints_task_resolutions: constrain_chunk_min
constrain_chunk_min(p, al, j) ==
    IF p.task_chunk_min[j] >= 2
    THEN SumI(al.A, timeslots(p), j) <= 0
    ELSE IF p.task_chunk_min[j] >= 3
    THEN SumI(al.A, timeslots(p), j) + SumI(al.A2, timeslots(p), j) <= 0
    ELSE TRUE

\* the rule with strict thresholds: a bound of exactly 1 disables nothing
constrain_chunk_max_strict(p, al, j) ==
    IF p.task_chunk_max[j] < 1
    THEN SumI(al.A2, timeslots(p), j) + SumI(al.A3, timeslots(p), j) <= 0
    ELSE IF p.task_chunk_max[j] < 2
    THEN SumI(al.A3, timeslots(p), j) <= 0
    ELSE TRUE

\* constrain_chunk_max
constrain_chunk_max(p, al, j) ==
    IF p.task_chunk_max[j] <= 1
    THEN SumI(al.A2, timeslots(p), j) + SumI(al.A3, timeslots(p), j) <= 0
    ELSE IF p.task_chunk_max[j] <= 2
    THEN SumI(al.A3, timeslots(p), j) <= 0
    ELSE TRUE

\* _constraints_utility: the three accounting identities
constraints_utility(p, u, sol) ==
    /\ constrain_A_total(p, u, sol)
    /\ constrain_A2_total(p, u, sol)
    /\ constrain_A3_total(p, u, sol)

\* _construct_ip: the rules of the other families it attaches
constraints_other(p, sol) ==
    /\ \A k \in categories(p) : constrain_cat_duration0(p, sol, k)
    /\ \A s \in dayslots : \A k \in categories(p) : constrain_cat_days0(p, sol, s, k)
    /\ \A k \in categories(p) : constrain_cat_days1(p, sol, k)
    /\ \A k \in categories(p) : constrain_cat_duration1(p, sol, k)
    /\ \A i \in timeslots(p) : \A j \in tasks(p) : constraints_task_valid(p, sol, i, j)
    /\ \A i \in timeslots(p) : constrain_nonoverlapping(p, sol, i)
    /\ \A j \in tasks(p) : constrain_task_duration(p, sol, j)
    /\ \A d \in dayslots : \A j \in tasks(p) : constrain_spread0(p, sol, d, j)
    /\ \A s \in dayslots : \A k \in categories(p) : constrain_cat_days2(p, sol, s, k)
    /\ \A k \in categories(p) : constrain_cat_days3(p, sol, k)
    /\ \A j \in tasks(p) : constrain_chunk_min(p, sol, j)
    /\ \A j \in tasks(p) : constrain_chunk_max(p, sol, j)

\* _construct_ip: every rule the built model holds, on a full assignment sol
\* of its variables.  The chunking, switching and dependency families are
\* not attached by _construct_ip.  The contiguity rules and constrain_spread1
\* are attached; they bound CTu, CTl and S_total only, and every allocation
\* admits values for these (CTu = CTl = 1 lies in each band), so they remove
\* no allocation and are left out of the assignment.
Feasible(p, u, sol) == constraints_utility(p, u, sol) /\ constraints_other(p, sol)

----------------------------------------------------------------------------
(* The external solver, by its contract.  Allocations enumerates the       *)
(* Boolean part of the search space timeslot by timeslot and drops a       *)
(* partial assignment as soon as it breaks a rule that no later timeslot   *)
(* can repair: the validity and non-overlap rules of the timeslots already *)
(* assigned, and the rules that only bound a sum of variables from above.  *)
(* Solutions keeps the full assignments that satisfy every rule.           *)

ZeroAlloc == [A |-> {}, A2 |-> {}, A3 |-> {}]

\* the Boolean variables of one timeslot: a resolution and a task
RowVars(p) == {"A", "A2", "A3"} \X tasks(p)

\* al with the variables R of timeslot i set to 1
SetRow(al, i, R) ==
    [A  |-> al.A  \cup {<<i, r[2]>> : r \in {q \in R : q[1] = "A"}},
     A2 |-> al.A2 \cup {<<i, r[2]>> : r \in {q \in R : q[1] = "A2"}},
     A3 |-> al.A3 \cup {<<i, r[2]>> : r \in {q \in R : q[1] = "A3"}}]

\* the rules already decided for al once timeslots 0..i are assigned
RowRules(p, al, i) ==
    /\ \A j \in tasks(p) : constraints_task_valid(p, al, i, j)
    /\ constrain_nonoverlapping(p, al, i)
    /\ \A j \in tasks(p) : constrain_chunk_min(p, al, j)
    /\ \A j \in tasks(p) : constrain_chunk_max(p, al, j)
    /\ \A j \in tasks(p) : constrain_task_duration(p, al, j)

\* the variables of timeslot i that the validity rules, each a bound on one
\* variable, leave free to be 1
FreeVars(p, i) ==
    { r \in RowVars(p) :
        constraints_task_valid(p, SetRow(ZeroAlloc, i, {r}), i, r[2]) }

RECURSIVE Allocations(_, _)
Allocations(p, n) ==
    IF n = 0 THEN {ZeroAlloc}
    ELSE LET rows == SUBSET FreeVars(p, n - 1)
         IN UNION { { al \in { SetRow(prev, n - 1, R) : R \in rows } :
                        RowRules(p, al, n - 1) } :
                    prev \in Allocations(p, n - 1) }

\* the functions f on the set keys with f[x] \in cand[x] for every x
RECURSIVE Choices(_, _)
Choices(cand, keys) ==
    IF keys = {} THEN { <<>> }
    ELSE LET x == CHOOSE y \in keys : TRUE
         IN { f @@ (x :> v) : f \in Choices(cand, keys \ {x}), v \in cand[x] }

\* the values of S (domain Integers) that constrain_spread0 permits for al;
\* the band has width 1 and total / den < 4, so none lies outside 0..3
S_values(p, al) ==
    LET keys == dayslots \X tasks(p)
        cand == [x \in keys |->
                   LET num == spread_total(p, al, x[1], x[2])
                       den == spread_den(p, x[1])
                   IN { s \in 0 .. 3 : indicator_band(s, num, den) }]
    IN Choices(cand, keys)

\* the values of S_cat (domain Boolean) that constrain_cat_days0 permits
S_cat_values(p, S) ==
    LET keys == dayslots \X categories(p)
        cand == [x \in keys |->
                   LET num == cat_days_num(p, S, x[1], x[2])
                       den == cat_den(p, x[2])
                   IN { c \in 0 .. 1 : indicator_band(c, num, den) }]
    IN Choices(cand, keys)

\* al with the variables that the defining rules determine from it
Completions(p, u, al) ==
    { [A |-> al.A, A2 |-> al.A2, A3 |-> al.A3,
       S |-> S, S_cat |-> Sc,
       S_cat_total |-> [k \in categories(p) |->
                          SumOver([s \in dayslots |-> Sc[s, k]], dayslots)],
       C_total |-> [k \in categories(p) |-> cat_k_total(p, al, k)],
       A_total |-> summation(p, u, al.A),
       A2_total |-> 2 * summation(p, u, al.A2),
       A3_total |-> 3 * summation(p, u, al.A3)] :
      <<S, Sc>> \in UNION { {S0} \X S_cat_values(p, S0) : S0 \in S_values(p, al) } }

\* the feasible points of the built model
Solutions(p, u) ==
    { sol \in UNION { Completions(p, u, al) : al \in Allocations(p, p.num_timeslots) } :
        Feasible(p, u, sol) }

\* the least value of the set of integers S
Minimum(S) == CHOOSE x \in S : \A y \in S : x <= y

\* what the solver can report on the feasible set sols: a status with the
\* point it loads into the instance (NoPoint when it loads none)
NoPoint == [A |-> {}]
Outcomes(sols) ==
    LET best == IF sols = {} THEN 0 ELSE Minimum({ obj_cost(s) : s \in sols })
    IN { [status |-> "optimal", point |-> s] : s \in { t \in sols : obj_cost(t) = best } }
       \cup { [status |-> "feasible", point |-> s] : s \in sols }
       \cup (IF sols = {} THEN { [status |-> "infeasible", point |-> NoPoint] } ELSE {})
       \cup { [status |-> "timeout", point |-> NoPoint],
              [status |-> "error", point |-> NoPoint] }

----------------------------------------------------------------------------
(* The solver object *)

\* the construction with the objective set before the constraints are added
ConstructSteps_objective_first ==
    << "_variables", "_objective_cost", "_constraints_variables",
       "_constraints_external", "_constraints_other", "_constraints_utility",
       "_constraints_category_duration", "_constraints_task_valid",
       "_constraints_nonoverlapping_tasks", "_constraints_task_duration",
       "_constraints_task_contiguity", "_constraints_task_spread",
       "_constraints_category_days", "_constraints_task_resolutions" >>

\* _construct_ip: its steps, in the order of the source (the calls that are
\* commented out there are not steps)
ConstructSteps ==
    << "_variables",
       "_constraints_variables", "_constraints_external", "_constraints_other",
       "_constraints_utility", "_constraints_category_duration",
       "_constraints_task_valid", "_constraints_nonoverlapping_tasks",
       "_constraints_task_duration", "_constraints_task_contiguity",
       "_constraints_task_spread", "_constraints_category_days",
       "_constraints_task_resolutions",
       "_objective_cost" >>

\* the variable families a step declares on self.model
Declares(step) ==
    IF step = "_variables"
    THEN { "A", "A_total", "A2", "A2_total", "A3", "A3_total", "S", "S_total",
           "T_end", "S_cat", "S_cat_total", "CTu", "CTl", "CTu_total",
           "CTl_total", "C_total", "D", "D_total" }
    ELSE {}

\* the variable families the rules of a step refer to
References(step) ==
    CASE step = "_constraints_variables" ->
           { "C_total", "A", "A2", "A3", "S_cat", "S", "S_cat_total" }
      [] step = "_constraints_utility" ->
           { "A_total", "A2_total", "A3_total", "A", "A2", "A3" }
      [] step = "_constraints_category_duration" -> { "C_total" }
      [] step = "_constraints_task_valid" -> { "A", "A2", "A3" }
      [] step = "_constraints_nonoverlapping_tasks" -> { "A", "A2", "A3" }
      [] step = "_constraints_task_duration" -> { "A", "A2", "A3" }
      [] step = "_constraints_task_contiguity" ->
           { "A", "A2", "A3", "CTu", "CTl", "CTu_total", "CTl_total" }
      [] step = "_constraints_task_spread" -> { "A", "A2", "A3", "S", "S_total" }
      [] step = "_constraints_category_days" -> { "S_cat", "S_cat_total" }
      [] step = "_constraints_task_resolutions" -> { "A", "A2", "A3" }
      [] step = "_objective_cost" -> { "A_total", "A2_total", "A3_total" }
      [] OTHER -> {}

\* CalendarSolver.__init__ running _construct_ip: one step at a time, and
\* the constructor returns after the last one
_construct_ip ==
    /\ pc = "construct"
    /\ Len(built) < Len(ConstructSteps)
    /\ built' = Append(built, ConstructSteps[Len(built) + 1])
    /\ pc' = IF Len(built) + 1 = Len(ConstructSteps) THEN "ready" ELSE "construct"
    /\ UNCHANGED <<parsed, chunking, params, utilities, _optimized, _results, instance, array, err,
                   solves, planned, solver_log>>

\* self.cont_slots = num_timeslots / cont_incr - 1, cont_incr being
\* CONT_STRIDE hours of timeslots
cont_slots == (24 \div CONT_STRIDE) * NumDays - 1

\* every index the rules read lies inside the array that is read
shapes_cover(p, u) ==
    /\ \A a \in { p.task_duration, p.task_chunk_min, p.task_chunk_max, p.task_spread } :
         tasks(p) \subseteq DOMAIN a
    /\ (timeslots(p) \X tasks(p)) \subseteq DOMAIN p.task_valid
    /\ (timeslots(p) \X tasks(p)) \subseteq DOMAIN u
    /\ (tasks(p) \X categories(p)) \subseteq DOMAIN p.task_category
    /\ \A a \in { p.category_min, p.category_max, p.category_total } :
         categories(p) \subseteq DOMAIN a
    /\ (dayslots \X categories(p)) \subseteq DOMAIN p.category_days

\* the exception model.create_instance() raises while it runs the rules,
\* "none" when it returns: an index outside an array, or the division by
\* den = num_tasks * ... of constrain_contiguity_ut/lt and constrain_spread1
create_instance_error(p, u) ==
    IF ~shapes_cover(p, u) THEN "IndexError"
    ELSE IF p.num_tasks * cont_slots * (SLACK + 1) = 0 \/ p.num_tasks * NumDays = 0
    THEN "ZeroDivisionError"
    ELSE "none"

\* results that do not carry the termination condition of the solver
solve_results_blank(out) == [status |-> "none"]

\* self._results after opt.solve returned on outcome out
solve_results(out) == [status |-> out.status]

NoInstance == [created |-> FALSE]
NoChunking == [mode |-> "none"]
NoParse == [parsed |-> FALSE]
NoResults == [status |-> "none"]
NoArray == <<>>

\* model.create_instance(): the variables at their initialize= values; a
\* variable declared without one has no value yet
create_instance(p) ==
    [created |-> TRUE, loaded |-> FALSE,
     A |-> {}, A2 |-> {}, A3 |-> {},
     S |-> [x \in dayslots \X tasks(p) |-> 0],
     S_cat |-> [x \in dayslots \X categories(p) |-> 0],
     S_cat_total |-> None,
     C_total |-> [k \in categories(p) |-> 0],
     A_total |-> None, A2_total |-> None, A3_total |-> None]

\* the instance after the solver loaded the point sol into it
load(sol) == [created |-> TRUE, loaded |-> TRUE] @@ sol

\* the flag set before the solver is called
optimized_before_solve(was, status) == TRUE

\* self._optimized after opt.solve ended with the given status: the
\* assignment follows the call, so a call that raises leaves the flag as it was
optimized_after(was, status) == IF status = "error" THEN was ELSE TRUE

\* optimize(): a fresh instance is created and handed to the solver; the
\* flag is set only when the solver call returns
optimize ==
    /\ pc = "ready"
    /\ solves < planned
    /\ solves' = solves + 1
    /\ IF create_instance_error(params, utilities) # "none"
       THEN /\ err' = create_instance_error(params, utilities)
            /\ UNCHANGED <<instance, _results, _optimized, solver_log>>
       ELSE \E out \in Outcomes(Solutions(params, utilities)) :
              /\ solver_log' = Append(solver_log,
                                      [timelimit |-> TIMELIMIT, status |-> out.status])
              /\ instance' = IF out.point = NoPoint
                             THEN create_instance(params)
                             ELSE load(out.point)
              /\ IF out.status = "error"
                 THEN /\ err' = "ApplicationError"
                      /\ UNCHANGED _results
                 ELSE /\ err' = "none"
                      /\ _results' = solve_results(out)
              /\ _optimized' = optimized_after(_optimized, out.status)
    /\ UNCHANGED <<parsed, chunking, params, utilities, array, planned, pc, built>>

\* the flattening that adds the 3-slot blocks begun at t - 1 a second time
\* in place of those begun at t - 2
flatten_shifted(p, inst) ==
    [x \in timeslots(p) \X tasks(p) |->
        V(inst.A, x[1], x[2])
        + V(inst.A2, x[1], x[2])
        + (IF x[1] >= 1 THEN V(inst.A2, x[1] - 1, x[2]) ELSE 0)
        + V(inst.A3, x[1], x[2])
        + (IF x[1] >= 1 THEN V(inst.A3, x[1] - 1, x[2]) ELSE 0)
        + (IF x[1] >= 2 THEN V(inst.A3, x[1] - 1, x[2]) ELSE 0)]

\* visualize(): the flattened calendar, array[t, j], from the instance's
\* A, A2, A3 (the values are integral here, so np.round leaves them as
\* they are)
flatten(p, inst) ==
    [x \in timeslots(p) \X tasks(p) |->
        V(inst.A, x[1], x[2])
        + V(inst.A2, x[1], x[2])
        + (IF x[1] >= 1 THEN V(inst.A2, x[1] - 1, x[2]) ELSE 0)
        + V(inst.A3, x[1], x[2])
        + (IF x[1] >= 1 THEN V(inst.A3, x[1] - 1, x[2]) ELSE 0)
        + (IF x[1] >= 2 THEN V(inst.A3, x[1] - 2, x[2]) ELSE 0)]

visualize ==
    /\ pc = "ready"
    /\ IF instance.created
       THEN /\ array' = flatten(params, instance)
            /\ err' = "none"
       ELSE /\ err' = "AttributeError"
            /\ UNCHANGED array
    /\ UNCHANGED <<parsed, chunking, params, utilities, _optimized, _results, instance, solves,
                   planned, pc, built, solver_log>>

\* display(): prints the totals of the instance
display ==
    /\ pc = "ready"
    /\ err' = IF instance.created THEN "none" ELSE "AttributeError"
    /\ UNCHANGED <<parsed, chunking, params, utilities, _optimized, _results, instance, array, solves,
                   planned, pc, built, solver_log>>

Next == optimize \/ visualize \/ display

\* a call optimize(limit): optimize(self) takes no argument, so the call
\* raises TypeError before the body runs
optimize_limit(limit) ==
    /\ pc = "ready"
    /\ solves < planned
    /\ err' = "TypeError"
    /\ UNCHANGED <<parsed, chunking, params, utilities, _optimized, _results, instance, array, solves,
                   planned, pc, built, solver_log>>

\* the time limits a caller may want to supply
CallerLimits == { TIMELIMIT, TIMELIMIT \div 2 }

\* a caller that constructs the solver itself and then uses it
NextLife ==
    \/ _construct_ip
    \/ optimize
    \/ \E limit \in CallerLimits : optimize_limit(limit)
    \/ visualize
    \/ display

\* np.prod(v) of the vector v indexed by 0..n-1
RECURSIVE prod(_, _)
prod(v, n) == IF n = 0 THEN 1 ELSE v[n - 1] * prod(v, n - 1)

\* the sum of the vector v indexed by 0..n-1
RECURSIVE vsum(_, _)
vsum(v, n) == IF n = 0 THEN 0 ELSE v[n - 1] + vsum(v, n - 1)

\* task_category.sum(axis=1): the number of categories of every task
row_sums(p) ==
    [j \in tasks(p) |->
       vsum([k \in categories(p) |-> p.task_category[j, k]], p.num_categories)]

\* the assertion that sums the rows where the script multiplies them
script_assertion_sum(p) == vsum(row_sums(p), p.num_tasks) > 0

\* calendar_md.py, the condition of the assert before the construction
script_assertion(p) == prod(row_sums(p), p.num_tasks) > 0

\* the script at its assert: it goes on to CalendarSolver(utilities, params)
\* or stops with AssertionError
script_assert ==
    /\ pc = "assert"
    /\ IF script_assertion(params)
       THEN pc' = "construct" /\ UNCHANGED err
       ELSE pc' = "stopped" /\ err' = "AssertionError"
    /\ UNCHANGED <<parsed, chunking, params, utilities, _optimized, _results, instance, array, solves,
                   planned, built, solver_log>>

\* the script: assert, construct, optimize, visualize, display
NextScript == script_assert \/ _construct_ip \/ optimize \/ visualize \/ display

----------------------------------------------------------------------------
(* Parameter bundles *)

\* DEFAULT_CHUNK_MIN, DEFAULT_CHUNK_MAX of scripts/calendar_md.py
DEFAULT_CHUNK_MIN == 2
DEFAULT_CHUNK_MAX == 20

\* the timeslots lo..hi of the week
Window(lo, hi) == { t \in 0 .. (NUMSLOTS - 1) : lo <= t /\ t <= hi }

\* a task_valid matrix from the set of valid timeslots of each task
valid_matrix(n, mask) ==
    [x \in (0 .. (NUMSLOTS - 1)) \X (0 .. (n - 1)) |->
        IF x[1] \in mask[x[2]] THEN 1 ELSE 0]

\* the masks explored: a window at the start of the week (it crosses the
\* boundary between day 0 and day 1), the same window with a hole, and a
\* window at the end of the week
Masks ==
    { Window(0, MaxWindow - 1),
      Window(0, MaxWindow - 1) \ {1},
      Window(NUMSLOTS - MaxWindow, NUMSLOTS - 1) }

\* the (task_chunk_min, task_chunk_max) pairs explored: a category default
\* task, a task of single slots, of 2-slot chunks, of 3-slot chunks, and the
\* script's default
ChunkPairs ==
    { <<0, NUMSLOTS>>, <<1, 1>>, <<2, 2>>, <<3, 3>>,
      <<DEFAULT_CHUNK_MIN, DEFAULT_CHUNK_MAX>> }

\* the script's defaults for the category arrays (calendar_md.py 55-57, 79-81)
\* with task 0 a member of every category and task j of category j % K
default_categories(n, K) ==
    [num_categories |-> K,
     task_category |-> [x \in (0 .. (n - 1)) \X (0 .. (K - 1)) |->
                          IF x[1] = 0 \/ x[1] % K = x[2] THEN 1 ELSE 0],
     category_min |-> [k \in 0 .. (K - 1) |-> 0],
     category_max |-> [k \in 0 .. (K - 1) |-> NUMSLOTS],
     category_days |-> [x \in dayslots \X (0 .. (K - 1)) |-> 0],
     category_total |-> [k \in 0 .. (K - 1) |-> 0]]

\* utilities as the script sets them: 0.5 for task 0, 0.333 for the others
script_utilities(n) ==
    [x \in (0 .. (NUMSLOTS - 1)) \X (0 .. (n - 1)) |->
        IF x[2] = 0 THEN 500 ELSE 333]

\* utilities that differ from timeslot to timeslot
graded_utilities(n) ==
    [x \in (0 .. (NUMSLOTS - 1)) \X (0 .. (n - 1)) |->
        100 * (1 + ((x[1] + x[2]) % 3))]

\* a solver object right after CalendarSolver(utilities, params)
Constructed ==
    /\ _optimized = FALSE
    /\ _results = NoResults
    /\ instance = NoInstance
    /\ array = NoArray
    /\ err = "none"
    /\ solves = 0
    /\ planned = 1
    /\ pc = "ready"
    /\ built = ConstructSteps
    /\ solver_log = <<>>
    /\ parsed = NoParse
    /\ chunking = NoChunking

\* the per-task arrays (valid timeslots, duration, chunk_min, chunk_max) of
\* the task under study: every mask, the two largest durations, every pair
StudyTasks ==
    { [mask |-> m, duration |-> d, chunk |-> c] :
      m \in Masks, d \in (MaxDuration - 1) .. MaxDuration, c \in ChunkPairs }

\* the per-task arrays of the tasks competing with it: a task free to take
\* any block of the first window, and a task of two single slots
OtherTasks ==
    { [mask |-> Window(0, MaxWindow - 1), duration |-> MaxDuration,
       chunk |-> <<0, NUMSLOTS>>],
      [mask |-> Window(1, 2), duration |-> 2, chunk |-> <<1, 1>>] }

\* the bundle of the tasks t (a function on 0..n-1) with the category arrays c
bundle(n, t, c) ==
    [num_tasks |-> n, num_timeslots |-> NUMSLOTS,
     task_valid |-> valid_matrix(n, [j \in 0 .. (n - 1) |-> t[j].mask]),
     task_duration |-> [j \in 0 .. (n - 1) |-> t[j].duration],
     task_chunk_min |-> [j \in 0 .. (n - 1) |-> t[j].chunk[1]],
     task_chunk_max |-> [j \in 0 .. (n - 1) |-> t[j].chunk[2]],
     task_spread |-> [j \in 0 .. (n - 1) |-> 0]] @@ c

\* bundles that vary the per-task arrays
TaskBundles ==
    { bundle(MaxTasks, t, default_categories(MaxTasks, MaxCategories)) :
      t \in { f \in [0 .. (MaxTasks - 1) -> StudyTasks \cup OtherTasks] :
                /\ f[0] \in StudyTasks
                /\ \A j \in 1 .. (MaxTasks - 1) : f[j] \in OtherTasks } }

Init ==
    /\ params \in TaskBundles
    /\ utilities = graded_utilities(MaxTasks)
    /\ Constructed

Spec == Init /\ [][Next]_vars

----------------------------------------------------------------------------
(* Properties of the allocations the solver returns *)

\* the solver returned and loaded an allocation into the instance
Solved == _optimized /\ instance.created /\ instance.loaded

\* the blocks of an allocation: <<length, first timeslot, task>>
Blocks(al) ==
    { <<1, x[1], x[2]>> : x \in al.A }
    \cup { <<2, x[1], x[2]>> : x \in al.A2 }
    \cup { <<3, x[1], x[2]>> : x \in al.A3 }

\* block b covers timeslot t
Covers(b, t) == b[2] <= t /\ t < b[2] + b[1]

\* the blocks of task j
BlocksOf(al, j) == { b \in Blocks(al) : b[3] = j }

\* the resolution-weighted total of task j: 1 per A, 2 per A2, 3 per A3
Weighted(al, j) ==
    Cardinality({ x \in al.A : x[2] = j })
    + 2 * Cardinality({ x \in al.A2 : x[2] = j })
    + 3 * Cardinality({ x \in al.A3 : x[2] = j })

\* C1: in every allocation the solver returns, every timeslot is covered by
\* at most one block (a 1-slot block at t, a 2-slot block begun at t or t-1,
\* a 3-slot block begun at t, t-1 or t-2), over all tasks
C1_NonOverlap ==
    Solved =>
      \A t \in timeslots(params) :
        Cardinality({ b \in Blocks(instance) : Covers(b, t) }) <= 1

\* a returned allocation where a 3-slot block of one task is followed at once
\* by a block of another task
C1_Witness ==
    /\ Solved
    /\ \E b \in Blocks(instance) : \E c \in Blocks(instance) :
         b[1] = 3 /\ c[3] # b[3] /\ c[2] = b[2] + 3

\* C2: in every allocation the solver returns, the weighted total of every
\* task lies in [0, task_duration]
C2_TaskDuration ==
    Solved =>
      \A j \in tasks(params) :
        0 <= Weighted(instance, j) /\ Weighted(instance, j) <= params.task_duration[j]

\* a returned allocation that uses a task's whole duration with a 2-slot block
C2_Witness ==
    /\ Solved
    /\ \E j \in tasks(params) :
         /\ Weighted(instance, j) = params.task_duration[j]
         /\ \E b \in BlocksOf(instance, j) : b[1] = 2

\* C3: in every allocation the solver returns, a block of task j covers only
\* timeslots of the week that are valid for j
C3_Validity ==
    Solved =>
      \A b \in Blocks(instance) :
        \A t \in b[2] .. (b[2] + b[1] - 1) :
          t \in timeslots(params) /\ params.task_valid[t, b[3]] = 1

\* a returned allocation with a 2-slot block of a task whose mask has a hole
\* inside its window
C3_Witness ==
    /\ Solved
    /\ \E b \in Blocks(instance) :
         /\ b[1] = 2
         /\ \E t \in timeslots(params) :
              /\ t < b[2]
              /\ params.task_valid[t, b[3]] = 0
              /\ \E t0 \in 0 .. t : params.task_valid[t0, b[3]] = 1

\* C5: a task with chunk_min = chunk_max = 1 is given no 2-slot or 3-slot
\* block in any allocation the solver returns
C5_SingleSlotTasks ==
    Solved =>
      \A j \in tasks(params) :
        (params.task_chunk_min[j] = 1 /\ params.task_chunk_max[j] = 1) =>
          \A b \in BlocksOf(instance, j) : b[1] = 1

\* a returned allocation that schedules a task with chunk_min = chunk_max = 1
\* whose duration and mask have room for a 2-slot block
C5_Witness ==
    /\ Solved
    /\ params.task_chunk_min[0] = 1 /\ params.task_chunk_max[0] = 1
    /\ params.task_duration[0] >= 2
    /\ params.task_valid[2, 0] = 1 /\ params.task_valid[3, 0] = 1
    /\ Cardinality(BlocksOf(instance, 0)) >= 2

----------------------------------------------------------------------------
(* A second family of parameter bundles: the task arrays are fixed and the *)
(* category arrays vary                                                    *)

\* the tasks of the category bundles: task 0 free to take any block of the
\* first window, every other task on the last timeslot of day 0 and the
\* first timeslot of day 1
CategoryTasks ==
    [j \in 0 .. (MaxTasks - 1) |->
       IF j = 0
       THEN [mask |-> Window(0, MaxWindow - 1), duration |-> MaxDuration,
             chunk |-> <<0, NUMSLOTS>>]
       ELSE [mask |-> Window(SlotsPerDay - 1, SlotsPerDay), duration |-> 2,
             chunk |-> <<0, NUMSLOTS>>]]

\* task_category: every task has a category (the script asserts it) and
\* every category has a member
Memberships ==
    { [x \in (0 .. (MaxTasks - 1)) \X (0 .. (MaxCategories - 1)) |->
         IF x[2] \in m[x[1]] THEN 1 ELSE 0] :
      m \in { f \in [0 .. (MaxTasks - 1) -> (SUBSET (0 .. (MaxCategories - 1))) \ {{}}] :
                \A k \in 0 .. (MaxCategories - 1) :
                  \E j \in 0 .. (MaxTasks - 1) : k \in f[j] } }

\* category_min and category_max: the script's defaults, or a budget of 2..3
Budgets ==
    [0 .. (MaxCategories - 1) -> { <<0, NUMSLOTS>>, <<2, 3>> }]

\* category_days and category_total: the script's defaults, category 0
\* required on day 1, or category 0 required on two days
DayRequirements ==
    { [category_days |-> [x \in dayslots \X (0 .. (MaxCategories - 1)) |-> 0],
       category_total |-> [k \in 0 .. (MaxCategories - 1) |-> 0]],
      [category_days |-> [x \in dayslots \X (0 .. (MaxCategories - 1)) |->
                            IF x = <<1, 0>> THEN 1 ELSE 0],
       category_total |-> [k \in 0 .. (MaxCategories - 1) |-> 0]],
      [category_days |-> [x \in dayslots \X (0 .. (MaxCategories - 1)) |-> 0],
       category_total |-> [k \in 0 .. (MaxCategories - 1) |-> IF k = 0 THEN 2 ELSE 0]] }

\* bundles that vary the category arrays
CategoryBundles ==
    { bundle(MaxTasks, CategoryTasks,
             [num_categories |-> MaxCategories,
              task_category |-> m,
              category_min |-> [k \in 0 .. (MaxCategories - 1) |-> b[k][1]],
              category_max |-> [k \in 0 .. (MaxCategories - 1) |-> b[k][2]]] @@ r) :
      m \in Memberships, b \in Budgets, r \in DayRequirements }

InitCat ==
    /\ params \in CategoryBundles
    /\ utilities = graded_utilities(MaxTasks)
    /\ Constructed

SpecCat == InitCat /\ [][Next]_vars

\* task j is a member of category k
Member(j, k) == params.task_category[j, k] = 1

\* task j occupies a timeslot of day d
Occupies(al, j, d) ==
    \E b \in BlocksOf(al, j) :
      \E t \in (d * SlotsPerDay) .. ((d + 1) * SlotsPerDay - 1) : Covers(b, t)

\* C4: in every allocation the solver returns, C_total[k] is the weighted
\* total of the member tasks of k, each member counted in full, and lies in
\* [category_min[k], category_max[k]]
C4_CategoryBudget ==
    Solved =>
      \A k \in categories(params) :
        /\ instance.C_total[k] =
             SumOver([j \in tasks(params) |->
                        IF Member(j, k) THEN Weighted(instance, j) ELSE 0],
                     tasks(params))
        /\ params.category_min[k] <= instance.C_total[k]
        /\ instance.C_total[k] <= params.category_max[k]

\* a returned allocation under a budget of 2..3 where a task of two
\* categories holds a 2-slot block
C4_Witness ==
    /\ Solved
    /\ \E k \in categories(params) : params.category_min[k] = 2
    /\ \E j \in tasks(params) :
         /\ \A k \in categories(params) : Member(j, k)
         /\ \E b \in BlocksOf(instance, j) : b[1] = 2

\* C6: in every allocation the solver returns, S_cat[d,k] = 1 if a member
\* task of k occupies a timeslot of day d, a timeslot covered by a block
\* begun the day before included, and S_cat[d,k] = 0 otherwise
C6_CategoryDayIndicator ==
    Solved =>
      \A k \in categories(params) : \A d \in dayslots :
        instance.S_cat[d, k] =
          IF \E j \in tasks(params) : Member(j, k) /\ Occupies(instance, j, d)
          THEN 1 ELSE 0

\* C7: in every allocation the solver returns, S_cat_total[k] is the number
\* of days d with S_cat[d,k] = 1 and is at least category_total[k], and
\* S_cat[d,k] = 1 on every day with category_days[d,k] = 1
C7_DayCoverage ==
    Solved =>
      \A k \in categories(params) :
        /\ instance.S_cat_total[k] =
             Cardinality({ d \in dayslots : instance.S_cat[d, k] = 1 })
        /\ \A d \in dayslots : instance.S_cat[d, k] \in {0, 1}
        /\ instance.S_cat_total[k] >= params.category_total[k]
        /\ \A d \in dayslots :
             params.category_days[d, k] = 1 => instance.S_cat[d, k] = 1

\* a returned allocation for a category required on two days that is
\* counted on exactly two
C7_Witness ==
    /\ Solved
    /\ \E k \in categories(params) :
         params.category_total[k] = 2 /\ instance.S_cat_total[k] = 2

----------------------------------------------------------------------------
(* A third family: small problems under several utility tensors, one of    *)
(* them with a category minimum that no allocation reaches                 *)

\* task 0 on the first window, with or without a forced chunk of two; every
\* other task on timeslots 1 and 2
UtilityTasks ==
    { [j \in 0 .. (MaxTasks - 1) |->
         IF j = 0
         THEN [mask |-> Window(0, MaxWindow - 1), duration |-> MaxDuration, chunk |-> c]
         ELSE [mask |-> Window(1, 2), duration |-> 2, chunk |-> <<0, NUMSLOTS>>]] :
      c \in { <<0, NUMSLOTS>>, <<2, 2>> } }

\* utilities that reward task 0 only, as the script does for default tasks
zero_utilities(n) ==
    [x \in (0 .. (NUMSLOTS - 1)) \X (0 .. (n - 1)) |->
        IF x[2] = 0 THEN 500 ELSE 0]

\* the script's category arrays, and the same with category_min[0] = NUMSLOTS
UtilityCategories ==
    { default_categories(MaxTasks, MaxCategories),
      [default_categories(MaxTasks, MaxCategories) EXCEPT
         !.category_min = [k \in 0 .. (MaxCategories - 1) |->
                             IF k = 0 THEN NUMSLOTS ELSE 0]] }

UtilityBundles ==
    { bundle(MaxTasks, t, c) : t \in UtilityTasks, c \in UtilityCategories }

InitUtility ==
    /\ params \in UtilityBundles
    /\ utilities \in { script_utilities(MaxTasks), graded_utilities(MaxTasks),
                       zero_utilities(MaxTasks) }
    /\ Constructed

SpecUtility == InitUtility /\ [][Next]_vars

\* the utility of the variables of M set to 1
UtilityOf(M) == SumOver([x \in M |-> utilities[x]], M)

\* the total utility of an allocation, from A, A2 and A3 alone
TotalUtility(al) == UtilityOf(al.A) + 2 * UtilityOf(al.A2) + 3 * UtilityOf(al.A3)

----------------------------------------------------------------------------
(* The single-task fixed-chunk scenario *)

\* the length L of the scenario
ChunkLen == 4

\* one task with duration = chunk_min = chunk_max = ChunkLen, valid everywhere
ChunkBundles ==
    { bundle(1,
             [j \in {0} |-> [mask |-> Window(0, NUMSLOTS - 1), duration |-> ChunkLen,
                             chunk |-> <<ChunkLen, ChunkLen>>]],
             default_categories(1, K)) : K \in 1 .. MaxCategories }

InitChunk ==
    /\ params \in ChunkBundles
    /\ utilities \in { script_utilities(1), graded_utilities(1) }
    /\ Constructed

SpecChunk == InitChunk /\ [][Next]_vars

\* the timeslots that task j occupies
Occupied(al, j) ==
    { t \in timeslots(params) : \E b \in BlocksOf(al, j) : Covers(b, t) }

\* the set of integers T is an interval
Contiguous(T) ==
    \A t \in T : \A v \in T : \A w \in t .. v : w \in T

\* the parameters are those of the fixed-chunk scenario
ChunkScenario ==
    /\ params.num_tasks = 1
    /\ params.task_duration[0] = ChunkLen
    /\ params.task_chunk_min[0] = ChunkLen
    /\ params.task_chunk_max[0] = ChunkLen
    /\ \A t \in timeslots(params) : params.task_valid[t, 0] = 1 /\ utilities[t, 0] > 0

\* C9: in the fixed-chunk scenario every optimal allocation occupies exactly
\* ChunkLen timeslots, and they are contiguous
C9_FixedChunk ==
    (ChunkScenario /\ Solved /\ _results.status = "optimal") =>
      /\ Cardinality(Occupied(instance, 0)) = ChunkLen
      /\ Contiguous(Occupied(instance, 0))

----------------------------------------------------------------------------
(* The spread scenario *)

\* one valid timeslot a day: the same timeslot of every day, or the last
\* timeslot of the even days and the first of the odd days
SpreadMasks ==
    { { d * SlotsPerDay + o : d \in dayslots } : o \in 0 .. (SlotsPerDay - 1) }
    \cup { { d * SlotsPerDay + (IF d % 2 = 0 THEN SlotsPerDay - 1 ELSE 0) : d \in dayslots } }

\* one spread task of duration NumDays that may take 1-slot blocks
SpreadBundles ==
    { [bundle(1,
              [j \in {0} |-> [mask |-> m, duration |-> NumDays, chunk |-> c]],
              default_categories(1, MaxCategories))
         EXCEPT !.task_spread = [j \in {0} |-> 1]] :
      m \in SpreadMasks, c \in {0, 1} \X {1, NUMSLOTS} }

InitSpread ==
    /\ params \in SpreadBundles
    /\ utilities \in { script_utilities(1), graded_utilities(1) }
    /\ Constructed

SpecSpread == InitSpread /\ [][Next]_vars

\* the timeslots of day d
DaySlots(d) == (d * SlotsPerDay) .. ((d + 1) * SlotsPerDay - 1)

\* the parameters are those of the spread scenario
SpreadScenario ==
    /\ params.num_tasks = 1
    /\ params.task_spread[0] = 1
    /\ params.task_duration[0] = NumDays
    /\ params.task_chunk_min[0] <= 1
    /\ \A d \in dayslots :
         Cardinality({ t \in DaySlots(d) : params.task_valid[t, 0] = 1 }) = 1
    /\ \A t \in timeslots(params) : utilities[t, 0] > 0

\* C10: in the spread scenario every optimal allocation occupies exactly one
\* timeslot of each of the 7 days
C10_Spread ==
    (SpreadScenario /\ Solved /\ _results.status = "optimal") =>
      \A d \in dayslots :
        Cardinality(Occupied(instance, 0) \cap DaySlots(d)) = 1

\* an optimal allocation of the spread scenario that holds a 2-slot block
\* across midnight
C10_Witness ==
    /\ SpreadScenario /\ Solved /\ _results.status = "optimal"
    /\ \E b \in BlocksOf(instance, 0) : b[1] = 2

----------------------------------------------------------------------------
(* Construction and use of the solver object by a caller *)

\* the per-task arrays of a task of two slots in the first three timeslots
LifeTask == [mask |-> Window(0, 2), duration |-> 2, chunk |-> <<0, NUMSLOTS>>]

\* a well-formed problem of one task in one category
TinyBundle == bundle(1, [j \in {0} |-> LifeTask], default_categories(1, 1))

\* a well-formed problem of MaxTasks tasks
PlainBundle ==
    bundle(MaxTasks, [j \in 0 .. (MaxTasks - 1) |-> LifeTask],
           default_categories(MaxTasks, 1))

\* the problem without tasks and without categories
EmptyBundle == bundle(0, <<>>, default_categories(0, 0))

\* the array a cut down to the indices in keep
restrict(a, keep) == [x \in (DOMAIN a) \cap keep |-> a[x]]

\* problems with an array shorter or longer than the sizes say: a
\* task_duration without its last task, a task_valid without its last
\* timeslot, a category_min without its last category, and a task_duration
\* with one entry too many
ShortDuration ==
    [PlainBundle EXCEPT !.task_duration = restrict(@, 0 .. (MaxTasks - 2))]

ShortValid ==
    [PlainBundle EXCEPT
       !.task_valid = restrict(@, (0 .. (NUMSLOTS - 2)) \X (0 .. (MaxTasks - 1)))]

ShortCategory ==
    [PlainBundle EXCEPT !.category_min = restrict(@, {})]

LongDuration ==
    [TinyBundle EXCEPT !.task_duration = [j \in 0 .. 1 |-> 2]]

\* the (utilities, params) pairs a caller hands to CalendarSolver; the last
\* one has a utilities array without its last task
LifeCases ==
    { <<graded_utilities(b.num_tasks), b>> :
        b \in { TinyBundle, PlainBundle, EmptyBundle, ShortDuration, ShortValid,
                ShortCategory, LongDuration } }
    \cup { <<graded_utilities(MaxTasks - 1), PlainBundle>> }

\* before CalendarSolver(utilities, params): nothing is built yet
Unbuilt ==
    /\ _optimized = FALSE
    /\ _results = NoResults
    /\ instance = NoInstance
    /\ array = NoArray
    /\ err = "none"
    /\ solves = 0
    /\ built = <<>>
    /\ solver_log = <<>>
    /\ parsed = NoParse
    /\ chunking = NoChunking

InitLife ==
    /\ \E c \in LifeCases : utilities = c[1] /\ params = c[2]
    /\ planned \in 1 .. MaxSolves
    /\ pc = "construct"
    /\ Unbuilt

SpecLife == InitLife /\ [][NextLife]_vars

\* the parameter bundle does not fit its own sizes
Malformed(p, u) ==
    \/ \E a \in { p.task_duration, p.task_chunk_min, p.task_chunk_max, p.task_spread } :
         DOMAIN a # tasks(p)
    \/ DOMAIN p.task_valid # timeslots(p) \X tasks(p)
    \/ DOMAIN u # timeslots(p) \X tasks(p)
    \/ DOMAIN p.task_category # tasks(p) \X categories(p)
    \/ \E a \in { p.category_min, p.category_max, p.category_total } :
         DOMAIN a # categories(p)
    \/ DOMAIN p.category_days # dayslots \X categories(p)

\* the last invocation of the external solver
LastSolve == solver_log[Len(solver_log)]

\* C11: once optimize() has been called on the problem with zero tasks and
\* zero categories, the solve has completed with Optimal status and the
\* instance holds the empty (all-zero) allocation.
C11_EmptyProblem ==
    (params.num_tasks = 0 /\ params.num_categories = 0 /\ solves > 0) =>
        /\ _optimized
        /\ err = "none"
        /\ _results.status = "optimal"
        /\ instance.created
        /\ instance.A = {} /\ instance.A2 = {} /\ instance.A3 = {}

\* the variable families declared by the steps b
DeclaredBy(b) == UNION { Declares(b[i]) : i \in 1 .. Len(b) }

\* the steps that add constraints, and the position of the objective in b
IsConstraintStep(step) == step \notin { "_variables", "_objective_cost" }
ObjectiveSet(b) == \E i \in 1 .. Len(b) : b[i] = "_objective_cost"

\* the phase of the solver object: 0 Unbuilt, 1 VariablesDeclared,
\* 2 ConstraintsAdded, 3 ObjectiveSet, 4 Solved
Phase ==
    IF _optimized THEN 4
    ELSE IF ObjectiveSet(built) THEN 3
    ELSE IF \E i \in 1 .. Len(built) : IsConstraintStep(built[i]) THEN 2
    ELSE IF DeclaredBy(built) # {} THEN 1
    ELSE 0

\* C12: every step keeps the phase or moves it to the next one (none is
\* skipped or revisited); a step of the construction refers only to variable
\* families declared by an earlier step; no constraint is added once the
\* objective is set; and an optimize() call runs only on a model whose
\* objective is set.
C12_LifecycleOrder ==
    [][ /\ Phase' \in { Phase, Phase + 1 }
        /\ \A i \in 1 .. Len(built') :
              References(built'[i]) \subseteq DeclaredBy(SubSeq(built', 1, i - 1))
        /\ \A i \in 1 .. Len(built') : \A k \in 1 .. Len(built') :
              (ObjectiveSet(SubSeq(built', 1, i)) /\ i < k) => ~IsConstraintStep(built'[k])
        /\ (solves' # solves) =>
              (ObjectiveSet(built) /\ Len(built) = Len(ConstructSteps)) ]_vars

\* a solver object that went through the whole construction and was solved
C12_Witness ==
    /\ _optimized
    /\ Phase = 4
    /\ built = ConstructSteps
    /\ Len(solver_log) = 1

\* C13: a visualize() or display() call on a solver object on which no
\* optimize() has completed ends in an error and leaves no allocation values
\* behind.
C13_QueryBeforeSolved ==
    [][ (~_optimized /\ (visualize \/ display)) =>
            (err' # "none" /\ array' = NoArray) ]_vars

\* C14: an optimize() call on a solver object on which optimize() has
\* completed runs no further solve and leaves the instance and the results
\* of the completed solve as they are.
C14_OneSolvePerInstance ==
    [][ (_optimized /\ solves' = solves + 1) =>
            /\ solver_log' = solver_log
            /\ instance' = instance
            /\ _results' = _results ]_vars

\* C16: an optimize() call with a time limit supplied by the caller invokes
\* the external solver with exactly that limit.
C16_CallerTimeLimit ==
    [][ \A limit \in CallerLimits :
          optimize_limit(limit) =>
            /\ Len(solver_log') = Len(solver_log) + 1
            /\ solver_log'[Len(solver_log')].timelimit = limit ]_vars

\* C17: the constructor never returns a solver object for a parameter bundle
\* with an array that is not dimensioned exactly by the sizes, so no
\* optimize() call and no solver invocation happens on it.
C17_ShapeChecking ==
    Malformed(params, utilities) =>
        (pc # "ready" /\ solves = 0 /\ solver_log = <<>>)

\* C18: every optimize() call invokes the external solver exactly once, with
\* the time limit of the module, on the constraint set built at
\* construction, and changes neither that constraint set nor the parameters.
C18_NoRelaxationNoRetry ==
    [][ (solves' = solves + 1) =>
            /\ Len(solver_log') = Len(solver_log) + 1
            /\ built' = built /\ built = ConstructSteps
            /\ params' = params /\ utilities' = utilities ]_vars

\* what the solver produced, by its termination condition
SolverResult(status) ==
    IF status = "optimal" THEN "optimal"
    ELSE IF status = "feasible" THEN "within the time limit"
    ELSE "no solution"

\* what the state of the solver object shows: the termination condition in
\* self._results and whether a solution was loaded into self.instance
ObservedResult ==
    IF _results.status = "optimal" THEN "optimal"
    ELSE IF instance.created /\ instance.loaded THEN "within the time limit"
    ELSE "no solution"

----------------------------------------------------------------------------
(* The script: parameter assembly, assertion, construction, solve *)

\* the tasks of the script: one work task, one other task and the default
\* task of every category
num_work_tasks == 1
num_other_tasks == 1
ScriptTasks == num_work_tasks + num_other_tasks + MaxCategories

\* task_category as the script fills it: the default task of category k is
\* in category k, the work task is in the work category 0 and in the
\* categories it lists (extra), the other task in the categories it lists
script_task_category(extra, listed) ==
    [x \in (0 .. (ScriptTasks - 1)) \X (0 .. (MaxCategories - 1)) |->
        IF x[1] >= num_work_tasks + num_other_tasks
        THEN IF x[1] = num_work_tasks + num_other_tasks + x[2] THEN 1 ELSE 0
        ELSE IF x[1] < num_work_tasks
        THEN IF x[2] = 0 \/ x[2] \in extra THEN 1 ELSE 0
        ELSE IF x[2] \in listed THEN 1 ELSE 0]

\* the per-task arrays of the script's tasks: one slot each, in the first
\* two timeslots
ScriptTask == [mask |-> Window(0, 1), duration |-> 1, chunk |-> <<0, NUMSLOTS>>]

\* the params the script assembles, for every choice of the categories the
\* work task and the other task list (the other task may list none)
ScriptBundles ==
    { bundle(ScriptTasks, [j \in 0 .. (ScriptTasks - 1) |-> ScriptTask],
             [default_categories(ScriptTasks, MaxCategories)
                EXCEPT !.task_category = script_task_category(extra, listed)]) :
        extra \in SUBSET (1 .. (MaxCategories - 1)),
        listed \in SUBSET (0 .. (MaxCategories - 1)) }

\* utilities as the script assembles them: 0.5 for the work tasks, 0.333 for
\* the other tasks, 0 for the default tasks
assembled_utilities ==
    [x \in (0 .. (NUMSLOTS - 1)) \X (0 .. (ScriptTasks - 1)) |->
        IF x[2] < num_work_tasks THEN 500
        ELSE IF x[2] < num_work_tasks + num_other_tasks THEN 333
        ELSE 0]

InitScript ==
    /\ params \in ScriptBundles
    /\ utilities = assembled_utilities
    /\ planned = 1
    /\ pc = "assert"
    /\ Unbuilt

SpecScript == InitScript /\ [][NextScript]_vars

\* every row of task_category has a nonzero entry
EveryTaskHasCategory(p) ==
    \A j \in tasks(p) : \E k \in categories(p) : p.task_category[j, k] # 0

\* C19: the script goes on to the construction of the solver only with a
\* task_category in which every task has a category; with a task without
\* category it stops at the assertion and builds nothing.
C19_EveryTaskHasCategory ==
    /\ (pc \in { "construct", "ready" } \/ built # <<>> \/ solves > 0) =>
            EveryTaskHasCategory(params)
    /\ (~EveryTaskHasCategory(params) /\ pc # "assert") =>
            (pc = "stopped" /\ err = "AssertionError" /\ built = <<>>)

\* the script stopped at the assertion: the other task lists no category,
\* the work task and the default tasks have theirs
C19_Witness ==
    /\ pc = "stopped"
    /\ built = <<>>
    /\ \A k \in categories(params) : params.task_category[num_work_tasks, k] = 0
    /\ \A j \in tasks(params) \ { num_work_tasks } :
          \E k \in categories(params) : params.task_category[j, k] = 1

----------------------------------------------------------------------------
(* The chunking families (_constraints_chunkingLm), attached to the model *)

\* the longest chunk length whose min-mode family is explored (the code has
\* the families 1m .. 6m)
MaxChunkLen == 3

\* _get_chunk_parameters: chunk_len ones, with offset entries of -1 in front
\* and behind
chunk_filter(chunk_len, offset) ==
    [x \in 0 .. (chunk_len + offset * 2 - 1) |->
        IF x < offset \/ x >= chunk_len + offset THEN 0 - 1 ELSE 1]

\* filter.size
filter_size(chunk_len, offset) == chunk_len + offset * 2

\* _get_chunk_parameters: the number of positions of the detector
c_len(p, chunk_len, offset) ==
    p.num_timeslots - filter_size(chunk_len, offset) + 1 + offset * 2

\* util.linop_from_1d_filter: row i applies the filter with its first
\* coefficient at timeslot i - offset; coefficients that fall outside the
\* week are dropped
linop_from_1d_filter(filter, size, T, offset) ==
    [x \in (0 .. (T - size + offset * 2)) \X (0 .. (T - 1)) |->
        IF 0 <= x[2] - x[1] + offset /\ x[2] - x[1] + offset < size
        THEN filter[x[2] - x[1] + offset]
        ELSE 0]

\* sum(L[i, k] * model.A[k, j] for k in model.timeslots), over the
\* timeslots below T
RECURSIVE filter_total(_, _, _, _, _)
filter_total(L, A, i, j, T) ==
    IF T = 0 THEN 0
    ELSE L[i, T - 1] * V(A, T - 1, j) + filter_total(L, A, i, j, T - 1)

\* the upper rule with the bound chunk_len in min mode
rule_chunk_upper_loose(p, mode, chunk_len, size, C, j) ==
    IF mode = "min"
    THEN IF p.task_chunk_min[j] <= chunk_len THEN TRUE ELSE C <= chunk_len
    ELSE IF p.task_chunk_max[j] + 1 = chunk_len THEN C <= size - 1 ELSE TRUE

\* the upper rule with the bound filter.size in max mode
rule_chunk_upper_full(p, mode, chunk_len, size, C, j) ==
    IF mode = "min"
    THEN IF p.task_chunk_min[j] <= chunk_len THEN TRUE ELSE C <= chunk_len - 1
    ELSE IF p.task_chunk_max[j] + 1 = chunk_len THEN C <= size ELSE TRUE

\* _get_rule_chunk_upper: the rule on the detector value C of task j
rule_chunk_upper(p, mode, chunk_len, size, C, j) ==
    IF mode = "min"
    THEN IF p.task_chunk_min[j] <= chunk_len THEN TRUE ELSE C <= chunk_len - 1
    ELSE IF p.task_chunk_max[j] + 1 = chunk_len THEN C <= size - 1 ELSE TRUE

\* the lower rule that skips a task in min mode only when its chunk_min is
\* below chunk_len
rule_chunk_lower_strict(p, mode, chunk_len, L, A, C, i, j) ==
    IF mode = "min" /\ p.task_chunk_min[j] < chunk_len THEN TRUE
    ELSE IF mode = "max" /\ p.task_chunk_max[j] + 1 # chunk_len THEN TRUE
    ELSE 0 <= C - filter_total(L, A, i, j, p.num_timeslots)

\* _get_rule_chunk_lower: the rule on the detector value C at position i of
\* task j
rule_chunk_lower(p, mode, chunk_len, L, A, C, i, j) ==
    IF mode = "min" /\ p.task_chunk_min[j] <= chunk_len THEN TRUE
    ELSE IF mode = "max" /\ p.task_chunk_max[j] + 1 # chunk_len THEN TRUE
    ELSE 0 <= C - filter_total(L, A, i, j, p.num_timeslots)

\* values for a detector variable (declared over the reals): the rules
\* compare it with integers only, so an integer between the least and the
\* greatest filter total satisfies them whenever a real does
DetectorValues(chunk_len, offset) == (0 - offset * 2) .. (chunk_len + offset * 2)

\* the two constraints of a chunking family on the allocation A: some values
\* of the detector variables meet the upper and the lower rule at every
\* position and task
constraints_chunking(p, mode, chunk_len, offset, A) ==
    LET size == filter_size(chunk_len, offset)
        L == linop_from_1d_filter(chunk_filter(chunk_len, offset), size,
                                  p.num_timeslots, offset)
    IN \A i \in 0 .. (c_len(p, chunk_len, offset) - 1) : \A j \in tasks(p) :
         \E C \in DetectorValues(chunk_len, offset) :
            /\ rule_chunk_upper(p, mode, chunk_len, size, C, j)
            /\ rule_chunk_lower(p, mode, chunk_len, L, A, C, i, j)

\* _constraints_chunking1m .. 6m: the min-mode family of chunking.chunk_len
\* (offset 1) attached, and its rules evaluated on the values chunking.A of
\* the allocation variables
_constraints_chunkingLm ==
    /\ chunking.mode = "min"
    /\ chunking.status = "unchecked"
    /\ chunking' =
         [chunking EXCEPT !.status =
            IF constraints_chunking(params, "min", chunking.chunk_len, 1, chunking.A)
            THEN "satisfied" ELSE "violated"]
    /\ UNCHANGED <<parsed, params, utilities, _optimized, _results, instance, array, err,
                   solves, planned, pc, built, solver_log>>

NextChunking == _constraints_chunkingLm

\* two tasks valid all week: task 0 with every task_chunk_min up to
\* MaxChunkLen + 1, task 1 with task_chunk_min 0
ChunkingBundles ==
    { bundle(2, [j \in 0 .. 1 |->
                   [mask |-> Window(0, NUMSLOTS - 1), duration |-> MaxChunkLen + 2,
                    chunk |-> <<IF j = 0 THEN cm ELSE 0, NUMSLOTS>>]],
             default_categories(2, 1)) : cm \in 0 .. (MaxChunkLen + 1) }

\* values of A: for task 0 every set of timeslots inside a window of
\* MaxChunkLen + 2 timeslots at the start, in the middle and at the end of
\* the week; for task 1 a single timeslot
ChunkingAllocations ==
    { (a \X {0}) \cup { <<MaxChunkLen + 3, 1>> } :
        a \in UNION { SUBSET Window(lo, lo + MaxChunkLen + 1) :
                        lo \in { 0, NUMSLOTS \div 2, NUMSLOTS - MaxChunkLen - 2 } } }

InitChunking ==
    /\ params \in ChunkingBundles
    /\ utilities = graded_utilities(2)
    /\ _optimized = FALSE
    /\ _results = NoResults
    /\ instance = NoInstance
    /\ array = NoArray
    /\ err = "none"
    /\ solves = 0
    /\ planned = 1
    /\ pc = "construct"
    /\ built = SubSeq(ConstructSteps, 1, Len(ConstructSteps) - 1)
    /\ solver_log = <<>>
    /\ parsed = NoParse
    /\ \E chunk_len \in 1 .. MaxChunkLen : \E a \in ChunkingAllocations :
         chunking = [mode |-> "min", chunk_len |-> chunk_len, A |-> a,
                     status |-> "unchecked"]

SpecChunking == InitChunking /\ [][NextChunking]_vars

\* task j has an isolated block of exactly len 1-slot assignments at
\* timeslot i: len ones, with a zero (or the end of the week) on each side
IsolatedBlock(A, j, i, len, T) ==
    /\ \A k \in i .. (i + len - 1) : <<k, j>> \in A
    /\ i = 0 \/ <<i - 1, j>> \notin A
    /\ i + len = T \/ <<i + len, j>> \notin A

\* C20: an allocation that satisfies the min-mode chunking constraints for
\* length L has, for every task j with task_chunk_min[j] > L, no isolated
\* block of exactly L 1-slot assignments at any position of the week.
C20_ChunkMinDetector ==
    (chunking.mode = "min" /\ chunking.status = "satisfied") =>
        \A j \in tasks(params) :
            params.task_chunk_min[j] > chunking.chunk_len =>
                \A i \in 0 .. (params.num_timeslots - chunking.chunk_len) :
                    ~IsolatedBlock(chunking.A, j, i, chunking.chunk_len,
                                   params.num_timeslots)

\* the family for length 2 satisfied by a task of task_chunk_min 3 with a
\* block of three 1-slot assignments at the end of the week
C20_Witness ==
    /\ chunking.mode = "min" /\ chunking.status = "satisfied"
    /\ chunking.chunk_len = 2
    /\ params.task_chunk_min[0] = 3
    /\ { t \in timeslots(params) : <<t, 0>> \in chunking.A }
         = Window(NUMSLOTS - 3, NUMSLOTS - 1)

----------------------------------------------------------------------------
(* The max-mode chunking families (_constraints_chunkingLM) *)

\* the chunk lengths whose max-mode family is explored (the code has the
\* families 4M .. 8M)
MinChunkLenM == 4
MaxChunkLenM == 5

\* _constraints_chunking4M .. 8M: the max-mode family of chunking.chunk_len
\* (offset 0) attached, and its rules evaluated on the values chunking.A of
\* the allocation variables
_constraints_chunkingLM ==
    /\ chunking.mode = "max"
    /\ chunking.status = "unchecked"
    /\ chunking' =
         [chunking EXCEPT !.status =
            IF constraints_chunking(params, "max", chunking.chunk_len, 0, chunking.A)
            THEN "satisfied" ELSE "violated"]
    /\ UNCHANGED <<parsed, params, utilities, _optimized, _results, instance, array, err,
                   solves, planned, pc, built, solver_log>>

NextDetectors == _constraints_chunkingLm \/ _constraints_chunkingLM

\* two tasks valid all week: task 0 with every task_chunk_max from
\* MinChunkLenM - 2 to MaxChunkLenM, task 1 with task_chunk_max NUMSLOTS
ChunkMaxBundles ==
    { bundle(2, [j \in 0 .. 1 |->
                   [mask |-> Window(0, NUMSLOTS - 1), duration |-> MaxChunkLenM + 1,
                    chunk |-> <<0, IF j = 0 THEN cM ELSE NUMSLOTS>>]],
             default_categories(2, 1)) :
        cM \in (MinChunkLenM - 2) .. MaxChunkLenM }

\* values of A: for task 0 every set of timeslots inside a window of
\* MaxChunkLenM + 1 timeslots at the start, in the middle and at the end of
\* the week; for task 1 the whole first window
ChunkMaxAllocations ==
    { (a \X {0}) \cup (Window(0, MaxChunkLenM) \X {1}) :
        a \in UNION { SUBSET Window(lo, lo + MaxChunkLenM) :
                        lo \in { 0, NUMSLOTS \div 2, NUMSLOTS - MaxChunkLenM - 1 } } }

\* the construction at the point where the chunking families are attached,
\* with a min-mode or a max-mode family and the values its rules are
\* evaluated on
InitDetectors ==
    /\ utilities = graded_utilities(2)
    /\ _optimized = FALSE
    /\ _results = NoResults
    /\ instance = NoInstance
    /\ array = NoArray
    /\ err = "none"
    /\ solves = 0
    /\ planned = 1
    /\ pc = "construct"
    /\ built = SubSeq(ConstructSteps, 1, Len(ConstructSteps) - 1)
    /\ solver_log = <<>>
    /\ parsed = NoParse
    /\ \/ /\ params \in ChunkingBundles
          /\ \E chunk_len \in 1 .. MaxChunkLen : \E a \in ChunkingAllocations :
               chunking = [mode |-> "min", chunk_len |-> chunk_len, A |-> a,
                           status |-> "unchecked"]
       \/ /\ params \in ChunkMaxBundles
          /\ \E chunk_len \in MinChunkLenM .. MaxChunkLenM :
             \E a \in ChunkMaxAllocations :
               chunking = [mode |-> "max", chunk_len |-> chunk_len, A |-> a,
                           status |-> "unchecked"]

SpecDetectors == InitDetectors /\ [][NextDetectors]_vars

\* every timeslot of the window of len timeslots at i is assigned to task j
\* in A
FullWindow(A, j, i, len) == \A k \in i .. (i + len - 1) : <<k, j>> \in A

\* C21: an allocation that satisfies the max-mode chunking constraints for
\* length L has, for every task j with task_chunk_max[j] + 1 = L, no window
\* of L consecutive timeslots all assigned to j in A, at any window position
\* of the week.
C21_ChunkMaxDetector ==
    (chunking.mode = "max" /\ chunking.status = "satisfied") =>
        \A j \in tasks(params) :
            params.task_chunk_max[j] + 1 = chunking.chunk_len =>
                \A i \in 0 .. (params.num_timeslots - chunking.chunk_len) :
                    ~FullWindow(chunking.A, j, i, chunking.chunk_len)

\* the family for length MinChunkLenM satisfied by a task of task_chunk_max
\* MinChunkLenM - 1 with a run of exactly that many 1-slot assignments at
\* the end of the week
C21_Witness ==
    /\ chunking.mode = "max" /\ chunking.status = "satisfied"
    /\ chunking.chunk_len = MinChunkLenM
    /\ params.task_chunk_max[0] = MinChunkLenM - 1
    /\ { t \in timeslots(params) : <<t, 0>> \in chunking.A }
         = Window(NUMSLOTS - MinChunkLenM + 1, NUMSLOTS - 1)

----------------------------------------------------------------------------
(* Resolutions and chunks in the allocations the solver returns *)

\* C22: in every allocation the solver returns, a task with task_chunk_min
\* >= 2 has no 1-slot block, and a task with task_chunk_min >= 3 has neither
\* a 1-slot nor a 2-slot block.
C22_ResolutionDisabling ==
    Solved =>
      \A j \in tasks(params) :
        /\ params.task_chunk_min[j] >= 2 =>
              \A b \in BlocksOf(instance, j) : b[1] # 1
        /\ params.task_chunk_min[j] >= 3 =>
              \A b \in BlocksOf(instance, j) : b[1] \notin { 1, 2 }

\* the chunks of task j: the maximal runs lo .. hi of timeslots occupied by
\* j, as <<lo, hi>>
Chunks(inst, j, T) ==
    LET occ == Occupied(inst, j)
    IN { r \in (0 .. (T - 1)) \X (0 .. (T - 1)) :
           /\ r[1] <= r[2]
           /\ \A t \in r[1] .. r[2] : t \in occ
           /\ (r[1] - 1) \notin occ
           /\ (r[2] + 1) \notin occ }

\* C23: in every allocation the solver returns, every chunk of every task j
\* has at least task_chunk_min[j] and at most task_chunk_max[j] timeslots.
C23_ChunkBounds ==
    Solved =>
      \A j \in tasks(params) :
        \A r \in Chunks(instance, j, params.num_timeslots) :
          /\ params.task_chunk_min[j] <= r[2] - r[1] + 1
          /\ r[2] - r[1] + 1 <= params.task_chunk_max[j]

----------------------------------------------------------------------------
(* Which positions the rules of a chunking family constrain *)

\* values to probe a rule with: below every filter total and above every
\* bound of the family for chunk_len
ProbeValues(chunk_len) == (0 - chunk_len - 3) .. (chunk_len + 3)

\* the upper rule of the family bounds the detector variable of task j: some
\* value does not satisfy it (Constraint.Feasible is satisfied by all)
UpperConstrains(p, mode, chunk_len, offset, j) ==
    \E C \in ProbeValues(chunk_len) :
        ~rule_chunk_upper(p, mode, chunk_len, filter_size(chunk_len, offset), C, j)

\* the lower rule of the family bounds the detector variable at (i, j)
LowerConstrains(p, mode, chunk_len, offset, A, i, j) ==
    LET L == linop_from_1d_filter(chunk_filter(chunk_len, offset),
                                  filter_size(chunk_len, offset),
                                  p.num_timeslots, offset)
    IN \E C \in ProbeValues(chunk_len) :
          ~rule_chunk_lower(p, mode, chunk_len, L, A, C, i, j)

\* the task's own bound already excludes the length of the family
Excluded(p, mode, chunk_len, j) ==
    \/ mode = "min" /\ p.task_chunk_min[j] <= chunk_len
    \/ mode = "max" /\ p.task_chunk_max[j] + 1 # chunk_len

\* the offset of the filter of a family: 1 in min mode, 0 in max mode
OffsetOf(mode) == IF mode = "min" THEN 1 ELSE 0

\* C24: in an attached chunking family, at every position i and task j the
\* upper rule bounds the detector variable exactly when the lower rule does,
\* and neither does exactly when task_chunk_min[j] <= L (min mode) or
\* task_chunk_max[j] + 1 # L (max mode).
C24_VacuousRulesSkipped ==
    (chunking.mode # "none" /\ chunking.status # "unchecked") =>
        \A j \in tasks(params) :
        \A i \in 0 .. (c_len(params, chunking.chunk_len, OffsetOf(chunking.mode)) - 1) :
            /\ UpperConstrains(params, chunking.mode, chunking.chunk_len,
                               OffsetOf(chunking.mode), j)
                 <=> LowerConstrains(params, chunking.mode, chunking.chunk_len,
                                     OffsetOf(chunking.mode), chunking.A, i, j)
            /\ UpperConstrains(params, chunking.mode, chunking.chunk_len,
                               OffsetOf(chunking.mode), j)
                 <=> ~Excluded(params, chunking.mode, chunking.chunk_len, j)

\* the min-mode family for length 2 attached for a task of task_chunk_min 2,
\* which it skips: the task has an isolated block of two 1-slot assignments
\* and the family is satisfied
C24_Witness ==
    /\ chunking.mode = "min" /\ chunking.status = "satisfied"
    /\ chunking.chunk_len = 2
    /\ params.task_chunk_min[0] = 2
    /\ { t \in timeslots(params) : <<t, 0>> \in chunking.A } = Window(1, 2)

----------------------------------------------------------------------------
(* The contiguity family (_constraints_task_contiguity) *)

\* self.model.contslots: the boundaries between consecutive strides of
\* CONT_STRIDE hours
contslots == 0 .. (cont_slots - 1)

\* timeslot k begins at or after the end of stride i: the stride is
\* cont_incr = CONT_STRIDE * SLOTS_PER_HOUR timeslots long, with
\* SLOTS_PER_HOUR = SlotsPerDay / 24
after_stride(i, k) == k * 24 >= (i + 1) * CONT_STRIDE * SlotsPerDay

\* util.triu(num_timeslots, incr=cont_incr)[i, k]: row i marks the timeslots
\* from the end of stride i to the end of the week
triu(i, k) == IF after_stride(i, k) THEN 1 ELSE 0

\* util.tril(num_timeslots, incr=cont_incr)[i, k]: row i marks the timeslots
\* from the start of the week to the end of stride i
tril(i, k) == IF after_stride(i, k) THEN 0 ELSE 1

\* den = sum(triu[i, :]) and den = sum(tril[i, :])
den_u(p, i) == Cardinality({ k \in timeslots(p) : triu(i, k) = 1 })
den_l(p, i) == Cardinality({ k \in timeslots(p) : tril(i, k) = 1 })

\* sum(triu[i, k] * (1 - A[k, j] - A2[k, j] - A3[k, j]) for k in ind): the
\* marked timeslots less the blocks of task j that begin in one of them
unassigned_u(p, al, i, j) ==
    den_u(p, i)
    - Cardinality({ x \in al.A : x[2] = j /\ triu(i, x[1]) = 1 })
    - Cardinality({ x \in al.A2 : x[2] = j /\ triu(i, x[1]) = 1 })
    - Cardinality({ x \in al.A3 : x[2] = j /\ triu(i, x[1]) = 1 })

\* the same sum with tril
unassigned_l(p, al, i, j) ==
    den_l(p, i)
    - Cardinality({ x \in al.A : x[2] = j /\ tril(i, x[1]) = 1 })
    - Cardinality({ x \in al.A2 : x[2] = j /\ tril(i, x[1]) = 1 })
    - Cardinality({ x \in al.A3 : x[2] = j /\ tril(i, x[1]) = 1 })

\* the factor that ignores task_spread
contiguity_active_always(p, j) == 1

\* active = 1 - self.task_spread[j]
contiguity_active(p, j) == 1 - p.task_spread[j]

\* -1 + EPS <= CT - active * num / den <= EPS + slack_cont, multiplied
\* through by EPS_INV * den (den > 0)
contiguity_band(CT, active, num, den) ==
    LET diff == EPS_INV * den * CT - EPS_INV * active * num
    IN (1 - EPS_INV) * den <= diff /\ diff <= (1 + SLACK * EPS_INV) * den

\* values for CTu[i, j] and CTl[i, j] (declared over the integers): the
\* band lies between -1 and slack_cont + 2
CT_values == (0 - 1) .. (SLACK + 2)

\* constrain_contiguity_u: the values it permits for CTu[i, j] with the
\* allocation al
permitted_CTu(p, al, i, j) ==
    LET num == unassigned_u(p, al, i, j)
        den == den_u(p, i)
        active == contiguity_active(p, j)
    IN { CT \in CT_values : contiguity_band(CT, active, num, den) }

\* constrain_contiguity_l: the values it permits for CTl[i, j] with the
\* allocation al
permitted_CTl(p, al, i, j) ==
    LET num == unassigned_l(p, al, i, j)
        den == den_l(p, i)
        active == contiguity_active(p, j)
    IN { CT \in CT_values : contiguity_band(CT, active, num, den) }

\* C25: for a task with task_spread = 1, at every contiguity stride the
\* values the built model permits for CTu and CTl with the allocation the
\* solver returns are those it permits with the empty allocation: they do
\* not depend on where the task is placed.
C25_SpreadDisablesContiguity ==
    Solved =>
      \A j \in tasks(params) : params.task_spread[j] = 1 =>
        \A i \in contslots :
          /\ permitted_CTu(params, instance, i, j)
               = permitted_CTu(params, ZeroAlloc, i, j)
          /\ permitted_CTl(params, instance, i, j)
               = permitted_CTl(params, ZeroAlloc, i, j)

\* a returned allocation that places the spread task in the last timeslot
\* of the week (inside the suffix of every stride) and in another one
C25_Witness ==
    /\ Solved
    /\ params.task_spread[0] = 1
    /\ <<NUMSLOTS - 1, 0>> \in instance.A
    /\ Cardinality(instance.A) >= 2

\* the timeslots from the end of stride i to the end of the week, and those
\* from the start of the week to the end of stride i
Suffix(p, i) == { k \in timeslots(p) : after_stride(i, k) }
Prefix(p, i) == { k \in timeslots(p) : ~after_stride(i, k) }

\* the integer values CT with f - 1 + EPS <= CT <= f + EPS + slack, for f
\* the fraction of the timeslots of part that task j does not occupy
BandOfFraction(part, inst, j) ==
    { CT \in CT_values :
        contiguity_band(CT, 1, Cardinality(part \ Occupied(inst, j)),
                        Cardinality(part)) }

\* C26: for every task that is not spread and every stride i, the values the
\* built model permits for CTu[i, j] with the allocation the solver returns
\* are the integers of the band around the fraction of the timeslots from
\* stride i to the end of the week that the task does not occupy (every
\* timeslot of a 2-slot or 3-slot block counted); likewise CTl[i, j] and the
\* timeslots up to stride i.
C26_ContiguityBand ==
    Solved =>
      \A j \in tasks(params) : params.task_spread[j] = 0 =>
        \A i \in contslots :
          /\ permitted_CTu(params, instance, i, j)
               = BandOfFraction(Suffix(params, i), instance, j)
          /\ permitted_CTl(params, instance, i, j)
               = BandOfFraction(Prefix(params, i), instance, j)

----------------------------------------------------------------------------
(* The flattened calendar of visualize() *)

\* visualize() has computed self.array from an allocation the solver
\* returned
Flattened == Solved /\ array # NoArray

\* C27: the array visualize() derives from an allocation the solver returns
\* has every entry in {0, 1} and at most one nonzero entry per timeslot.
C27_FlattenedAssignment ==
    Flattened =>
      \A t \in timeslots(params) :
        /\ \A j \in tasks(params) : array[t, j] \in { 0, 1 }
        /\ Cardinality({ j \in tasks(params) : array[t, j] # 0 }) <= 1

\* a flattened calendar with a 3-slot block of one task followed at once by
\* a block of another task
C27_Witness ==
    /\ Flattened
    /\ \E b \in Blocks(instance) : \E c \in Blocks(instance) :
         /\ b[1] = 3 /\ c[3] # b[3] /\ c[2] = b[2] + 3
         /\ array[b[2] + 2, b[3]] = 1
         /\ array[c[2], c[3]] = 1

\* C28: in every allocation the solver returns, the weighted total of every
\* task (the one the duration rule bounds) is the number of timeslots the
\* task occupies in the flattened calendar; no 2-slot block begins at the
\* last timeslot and no 3-slot block at one of the last two.
C28_WeightedIsOccupancy ==
    Solved =>
      LET flat == flatten(params, instance)
      IN \A j \in tasks(params) :
           /\ task_j_total(params, instance, j)
                = Cardinality({ t \in timeslots(params) : flat[t, j] # 0 })
           /\ <<params.num_timeslots - 1, j>> \notin instance.A2
           /\ <<params.num_timeslots - 1, j>> \notin instance.A3
           /\ <<params.num_timeslots - 2, j>> \notin instance.A3

\* a returned allocation with a 2-slot block on the last two timeslots of
\* the week and a 1-slot block before it
C28_Witness ==
    /\ Solved
    /\ <<params.num_timeslots - 2, 0>> \in instance.A2
    /\ <<params.num_timeslots - 3, 0>> \in instance.A
    /\ task_j_total(params, instance, 0) = 3



-----------------------------------------------------------------------------
(* The script: the task masks assembled from the parsed description *)

\* the keys of a description entry, in the order the description gives them
key_when(clauses) == [key |-> "when", clauses |-> clauses, cats |-> <<>>, value |-> 0]
key_categories(cats) == [key |-> "categories", clauses |-> <<>>, cats |-> cats, value |-> 0]
key_min(value) == [key |-> "min", clauses |-> <<>>, cats |-> <<>>, value |-> value]

\* tutil.modifier_mask(clause, total): the timeslots a "when" clause allows
\* to an entry of the given total; a clause carries the mask it yields for
\* total 0 and the mask it yields for any other total
modifier_mask(clause, total) == IF total = 0 THEN clause.short ELSE clause.long

\* the position of the "Work" category in category_names
work_category == 0

\* the loop over the clauses of a "when" key: mask AND sub_mask, in turn
RECURSIVE and_clauses(_, _, _)
and_clauses(mask, clauses, total) ==
    IF clauses = <<>> THEN mask
    ELSE and_clauses(mask \cap modifier_mask(Head(clauses), total),
                     Tail(clauses), total)

\* the loop over the keys of a category: "when" narrows the category's mask
\* with the category_min read so far, "min" sets category_min (in slots)
RECURSIVE read_category(_, _)
read_category(st, keys) ==
    IF keys = <<>> THEN st
    ELSE LET k == Head(keys) IN
         read_category(
            IF k.key = "when"
            THEN [st EXCEPT !.mask = and_clauses(st.mask, k.clauses, st.min)]
            ELSE IF k.key = "min"
            THEN [st EXCEPT !.min = k.value]
            ELSE st,
            Tail(keys))

\* category_masks after the CATEGORIES loop: all timeslots by default
category_masks(desc) ==
    [k \in 0 .. (MaxCategories - 1) |->
        read_category([mask |-> Window(0, NUMSLOTS - 1), min |-> 0],
                      desc.time_alloc[k]).mask]

\* the loop over the categories a task lists: the task joins each category
\* and its mask is narrowed by the category's mask
RECURSIVE and_categories(_, _, _)
and_categories(st, cats, cmasks) ==
    IF cats = <<>> THEN st
    ELSE and_categories([mask |-> st.mask \cap cmasks[Head(cats)],
                         cats |-> st.cats \cup {Head(cats)}],
                        Tail(cats), cmasks)

\* the loop over the keys of a task: its column of overall_mask and its row
\* of task_category
RECURSIVE read_task(_, _, _, _)
read_task(st, keys, total, cmasks) ==
    IF keys = <<>> THEN st
    ELSE LET k == Head(keys) IN
         read_task(
            IF k.key = "when"
            THEN [st EXCEPT !.mask = and_clauses(st.mask, k.clauses, total)]
            ELSE IF k.key = "categories"
            THEN and_categories(st, k.cats, cmasks)
            ELSE st,
            Tail(keys), total, cmasks)

\* OTHER TASKS: a task starts allowed everywhere and in no category
other_task(keys, total, cmasks) ==
    read_task([mask |-> Window(0, NUMSLOTS - 1), cats |-> {}], keys, total, cmasks)

\* a work task whose mask is not narrowed by the Work mask after its keys
work_task_unmasked(keys, total, cmasks) ==
    read_task([mask |-> Window(0, NUMSLOTS - 1), cats |-> {work_category}],
              keys, total, cmasks)

\* WORK TASKS: a task starts in the Work category, and after its keys its
\* mask is narrowed by the Work category's mask
work_task(keys, total, cmasks) ==
    LET st == read_task([mask |-> Window(0, NUMSLOTS - 1),
                         cats |-> {work_category}], keys, total, cmasks)
    IN  [st EXCEPT !.mask = @ \cap cmasks[work_category]]

\* the rows of the script's tasks: work tasks, other tasks, then the default
\* task of every category, whose mask is the category's mask
assembled_tasks(desc) ==
    LET cm == category_masks(desc) IN
    [j \in 0 .. (ScriptTasks - 1) |->
        IF j < num_work_tasks
        THEN work_task(desc.work_tasks[j], ScriptTask.duration, cm)
        ELSE IF j < num_work_tasks + num_other_tasks
        THEN other_task(desc.other_tasks[j - num_work_tasks],
                        ScriptTask.duration, cm)
        ELSE [mask |-> cm[j - num_work_tasks - num_other_tasks],
              cats |-> {j - num_work_tasks - num_other_tasks}]]

\* the params the script passes to CalendarSolver for a description
assembled_params(desc) ==
    LET rows == assembled_tasks(desc) IN
    bundle(ScriptTasks,
           [j \in 0 .. (ScriptTasks - 1) |->
               [ScriptTask EXCEPT !.mask = rows[j].mask]],
           [default_categories(ScriptTasks, MaxCategories)
              EXCEPT !.task_category =
                 [x \in (0 .. (ScriptTasks - 1)) \X (0 .. (MaxCategories - 1)) |->
                     IF x[2] \in rows[x[1]].cats THEN 1 ELSE 0]])

\* params before the script has assembled them
NoParams == [assembled |-> FALSE]

\* the script from the parsed description to its assert
assemble ==
    /\ pc = "assemble"
    /\ params' = assembled_params(parsed)
    /\ utilities' = assembled_utilities
    /\ pc' = "assert"
    /\ UNCHANGED <<parsed, chunking, _optimized, _results, instance, array, err,
                   solves, planned, built, solver_log>>

NextAssembly == assemble \/ script_assert

\* "when" clauses: the mask for total 0 and the mask for another total
Clauses ==
    { [short |-> Window(0, 2 * SlotsPerDay - 1), long |-> Window(0, SlotsPerDay)],
      [short |-> Window(SlotsPerDay - 1, NUMSLOTS - 1),
       long |-> Window(SlotsPerDay - 1, NUMSLOTS - 1)] }

\* the keys of a category, in every order of "min" and "when"
CategoryKeys ==
    {<<>>}
    \cup { <<key_when(<<c>>)>> : c \in Clauses }
    \cup { <<key_min(1), key_when(<<c>>)>> : c \in Clauses }
    \cup { <<key_when(<<c>>), key_min(1)>> : c \in Clauses }

\* the keys of a task, in every order of "when" and "categories"
TaskKeys ==
    {<<>>}
    \cup { <<key_when(<<c>>)>> : c \in Clauses }
    \cup { <<key_categories(l)>> : l \in {<<1>>, <<0, 1>>} }
    \cup { <<key_when(<<c>>), key_categories(<<1>>)>> : c \in Clauses }
    \cup { <<key_categories(<<1>>), key_when(<<c>>)>> : c \in Clauses }

Descriptions ==
    [time_alloc : [0 .. (MaxCategories - 1) -> CategoryKeys],
     work_tasks : [0 .. (num_work_tasks - 1) -> TaskKeys],
     other_tasks : [0 .. (num_other_tasks - 1) -> TaskKeys]]

InitAssembly ==
    /\ parsed \in Descriptions
    /\ params = NoParams
    /\ utilities = <<>>
    /\ planned = 1
    /\ pc = "assemble"
    /\ _optimized = FALSE
    /\ _results = NoResults
    /\ instance = NoInstance
    /\ array = NoArray
    /\ err = "none"
    /\ solves = 0
    /\ built = <<>>
    /\ solver_log = <<>>
    /\ chunking = NoChunking

SpecAssembly == InitAssembly /\ [][NextAssembly]_vars

\* the timeslots params allow to task i
ValidSlots(p, i) == { t \in timeslots(p) : p.task_valid[t, i] = 1 }

\* the script has assembled params from the description
Assembled == parsed # NoParse /\ pc # "assemble"

\* C29: in the params the script passes on, a work or other task is valid
\* only at timeslots that the mask of each of its categories allows, a work
\* task only at timeslots the Work mask allows, and the default task of a
\* category is valid exactly on its category's mask, in every order of the
\* keys of the description
C29_MasksRespectCategories ==
    Assembled =>
        LET cm == category_masks(parsed) IN
        /\ \A i \in 0 .. (num_work_tasks + num_other_tasks - 1) :
             \A c \in categories(params) :
                params.task_category[i, c] = 1 =>
                   \A t \in timeslots(params) :
                      params.task_valid[t, i] = 1 => t \in cm[c]
        /\ \A i \in 0 .. (num_work_tasks - 1) :
             ValidSlots(params, i) \subseteq cm[work_category]
        /\ \A c \in categories(params) :
             ValidSlots(params, num_work_tasks + num_other_tasks + c) = cm[c]

\* a work task that lists a category before its own "when", with both its
\* categories narrowed and timeslots left to it
C29_Witness ==
    /\ Assembled
    /\ Len(parsed.work_tasks[0]) = 2
    /\ parsed.work_tasks[0][1].key = "categories"
    /\ category_masks(parsed)[work_category] # Window(0, NUMSLOTS - 1)
    /\ category_masks(parsed)[1] # category_masks(parsed)[work_category]
    /\ ValidSlots(params, 0) # {}
    /\ params.task_category[0, 1] = 1


-----------------------------------------------------------------------------
(* The solved flag *)

\* a step that is an optimize() call
OptimizeCall == solves' = solves + 1

\* C30: _optimized is False until an optimize() call returns, True from
\* then on and never reset; it is True exactly when a solver result is
\* stored in _results; an optimize() call that raises leaves it as it was,
\* also when the call has already replaced self.instance
C30_SolvedFlag ==
    /\ [](_optimized <=> _results # NoResults)
    /\ [](solves = 0 => ~_optimized)
    /\ [][/\ _optimized => _optimized'
          /\ (~_optimized /\ _optimized') => (OptimizeCall /\ err' = "none")
          /\ (OptimizeCall /\ err' = "none") => _optimized'
          /\ (OptimizeCall /\ err' # "none") => _optimized' = _optimized]_vars

\* the solver call of the first optimize() raised: the instance is the new
\* one, the flag is still False and no result is stored
C30_Witness ==
    /\ solves >= 1
    /\ err = "ApplicationError"
    /\ instance.created
    /\ ~_optimized
    /\ _results = NoResults

====
